---- MODULE Spec2Model ----
(***************************************************************************)
(* Model of the SoulBrowser Python SDK task event stream:                  *)
(*   sdk/python/soulbrowser_sdk/client.py   (open_task_stream,             *)
(*                                           iter_task_stream, close)      *)
(*   examples/sdk/python/chat_plan.py       (consuming loop)               *)
(*   examples/sdk/python/live_companion.py  (consuming loop)               *)
(*   sdk/python/examples/gateway_plan_demo.py (gateway submission, URL)    *)
(*   sdk/python/soulbrowser_sdk/gateway.py  (tenant id, request headers)   *)
(*                                                                         *)
(* The WebSocket object (websocket_class) and the httpx client are         *)
(* collaborators of the SDK: their behaviour is the environment.  What     *)
(* recv() does when the connection is closed is not fixed by the SDK, so   *)
(* it is a nondeterministic choice among CloseSignals.                     *)
(***************************************************************************)
EXTENDS Naturals, Sequences, FiniteSets

(* ------------------------------ bounds -------------------------------- *)
\* handles the caller may open
MaxSessions == 2
\* frames the transport hands over to one session
MaxFrames == 3
\* close() calls per handle and per client
MaxCloseCalls == 2

Handles == 1..MaxSessions

(* ------------------------------ frames -------------------------------- *)
\* What dict.get returns for a missing key, and what a JSON null parses
\* to: Python's None.
Absent == "<absent>"

\* JSON text, as the parser sees it: a string, null, an object (its
\* members in the order of the text), or text that is not JSON.
Str(s) == [t |-> "str", v |-> s]
Null == [t |-> "null", v |-> "null"]
Obj(members) == [t |-> "obj", v |-> members]
Bad(s) == [t |-> "bad", v |-> s]

\* Raw text frames put on the wire by the server.
Frames ==
    {"st_running", "st_success", "st_failed", "st_cancelled", "overlay",
     "observation", "metric", "noevent", "notjson"}

\* {"event":"status","status":{"status":s,"current_step":"1","last_error":null}}
StatusText(s) ==
    Obj(<< <<"event", Str("status")>>,
           <<"status", Obj(<< <<"status", Str(s)>>,
                              <<"current_step", Str("1")>>,
                              <<"last_error", Null>> >>)>> >>)

FrameText(raw) ==
    CASE raw = "st_queued"    -> StatusText("queued")
      [] raw = "st_running"   -> StatusText("running")
      [] raw = "st_success"   -> StatusText("success")
      [] raw = "st_failed"    -> StatusText("failed")
      [] raw = "st_cancelled" -> StatusText("cancelled")
      [] raw = "overlay" ->
            Obj(<< <<"event", Str("overlay")>>,
                   <<"overlay", Obj(<< <<"source", Str("vision")>>,
                                       <<"data", Obj(<< <<"title",
                                                 Str("Example")>> >>)>> >>)>> >>)
      [] raw = "observation" ->
            Obj(<< <<"event", Str("observation")>>,
                   <<"observation_type", Str("image")>>,
                   <<"step_id", Str("navigate")>>,
                   <<"dispatch_label", Str("action")>>,
                   <<"bbox", Null>>,
                   <<"screenshot_path", Str("/tmp/s.png")>> >>)
      [] raw = "metric" ->
            Obj(<< <<"event", Str("metric")>>, <<"value", Str("42")>> >>)
      [] raw = "noevent" ->
            Obj(<< <<"task_id", Str("t-1")>> >>)
      [] OTHER -> Bad("{not json")

\* The index of the last member of `members` named k (0 when none).
RECURSIVE LastIndex(_, _, _)
LastIndex(members, k, n) ==
    IF n = 0 THEN 0
    ELSE IF members[n][1] = k THEN n
    ELSE LastIndex(members, k, n - 1)

\* What json.loads builds from JSON text: a dict for an object (a repeated
\* name keeps its last value), None for null, the string for a string.
\* (The variant drops the members whose value is null.)
RECURSIVE ParseDropNull(_)
ParseDropNull(x) ==
    IF x.t = "obj"
    THEN LET ms == x.v
             keys == {ms[i][1] : i \in {j \in 1..Len(ms) : ms[j][2].t /= "null"}}
         IN [k \in keys |-> ParseDropNull(ms[LastIndex(ms, k, Len(ms))][2])]
    ELSE IF x.t = "null" THEN Absent
    ELSE x.v

RECURSIVE Parse(_)
Parse(x) ==
    IF x.t = "obj"
    THEN LET ms == x.v
             keys == {ms[i][1] : i \in 1..Len(ms)}
         IN [k \in keys |-> Parse(ms[LastIndex(ms, k, Len(ms))][2])]
    ELSE IF x.t = "null" THEN Absent
    ELSE x.v

EmptyDict == [k \in {} |-> Absent]

\* dict.get(k) and dict.get(k, {})
Get(d, k) == IF k \in DOMAIN d THEN d[k] ELSE Absent
GetDict(d, k) == IF k \in DOMAIN d THEN d[k] ELSE EmptyDict

StatusDoc(s) == Parse(StatusText(s))
KindDoc(k) == [event |-> k]

\* json.loads(message): the parsed document, or ok = FALSE when it raises
\* json.JSONDecodeError.  The empty string (what websocket-client's recv()
\* returns for a close frame) is not a JSON document either.  (The strict
\* variant rejects a document whose kind it does not know.)
KnownKinds ==
    {"status", "log", "context", "observation", "overlay", "annotation",
     "error"}

JsonLoadsStrict(raw) ==
    IF FrameText(raw).t = "obj"
       /\ Get(Parse(FrameText(raw)), "event") \in KnownKinds \cup {Absent}
    THEN [ok |-> TRUE, val |-> Parse(FrameText(raw))]
    ELSE [ok |-> FALSE, val |-> EmptyDict]

JsonLoads(raw) ==
    IF FrameText(raw).t = "obj"
    THEN [ok |-> TRUE, val |-> Parse(FrameText(raw))]
    ELSE [ok |-> FALSE, val |-> EmptyDict]

\* How recv() reports a closed connection: None (what iter_task_stream
\* tests for), "" (websocket-client on a close frame), or an exception
\* (WebSocketConnectionClosedException, ConnectionClosedOK, OSError).
CloseSignals == {"None", "Empty", "Raise"}

(* ------------------------------ state --------------------------------- *)
VARIABLES
    program,        \* the caller: "api" (any caller of the SDK) or a shipped script
    gw,             \* SoulBrowserGatewayClient: its fields
    call,           \* the last call on the gateway client and its outcome
    response,       \* what the script's submission (chat, run_plan) returned
    url,            \* a base endpoint, a stream path and the URL built from them
    pc,             \* position of the shipped script's main()
    client,         \* SoulBrowserClient: _owns_http, _http and close() calls
    conn,           \* per handle: state of the WebSocket object
    connects,       \* per handle: ws.connect() calls issued
    closes,         \* per handle: ws.close() calls issued
    released,       \* per handle: times the connection was actually released
    gen,            \* position of the iter_task_stream generator
    endCause,       \* what ended the iteration: what recv() saw, or an interrupt
    cancelPending,  \* ws.close() arrived while recv() was blocked
    wire,           \* frames recv() returned to the generator, in order
    delivered,      \* events the generator yielded, in order
    observed,       \* events the shipped loop's body has consumed
    verdicts        \* the loop's terminal test on each observed event

\* conn, connects, closes and released are kept for every handle ever
\* created; gen .. delivered describe the generator over the handle opened
\* last (Cur): the caller opens one session after another.

vars == <<program, gw, call, response, url, pc, client, conn, connects,
          closes, released, gen, endCause, cancelPending, wire, delivered,
          observed, verdicts>>

sessVars == <<conn, connects, closes, released, gen, endCause,
              cancelPending, wire, delivered>>

Programs == {"api", "chat_plan", "live_companion", "gateway_demo"}
Loops == {"chat_plan", "live_companion"}

\* SoulBrowserClient(): base_url defaults to http://127.0.0.1:8801.
DefaultUrl ==
    [scheme |-> "http", host |-> "127.0.0.1", port |-> 8801, slash |-> FALSE,
     path |-> Absent, gateway |-> FALSE, by |-> Absent, out |-> Absent]

\* The gateway client before SoulBrowserGatewayClient(...) has returned,
\* and the one gateway_plan_demo constructs (tenant "demo-tenant" and no
\* token by default).
NoGateway ==
    [made |-> FALSE, tenant_id |-> Absent, api_key |-> Absent,
     tenant_token |-> Absent, static_headers |-> EmptyDict]
DemoGateway ==
    [made |-> TRUE, tenant_id |-> "demo-tenant", api_key |-> Absent,
     tenant_token |-> Absent, static_headers |-> EmptyDict]

\* No call made yet.  A call records its name, whether it raised
\* ValueError, the per-call tenant_id and overrides, and the headers
\* _build_headers returned.
NoCall ==
    [op |-> "none", raised |-> FALSE, tenant_id |-> Absent,
     overrides |-> EmptyDict, headers |-> EmptyDict]

\* The shipped programs construct SoulBrowserClient(base_url=...): no
\* `http` is passed, so the client owns its HTTP client.
\* _websocket_class is websocket_class or websocket.WebSocket, and None
\* when neither exists; the constructor accepts that.  (gateway_plan_demo
\* imports websocket itself.)
InitSession ==
    /\ pc = CASE program \in {"api", "gateway"} -> "api"
              [] program = "gateway_demo" -> "run_plan"
              [] OTHER -> "chat"
    /\ gw = IF program = "gateway_demo" THEN DemoGateway ELSE NoGateway
    /\ call = NoCall
    /\ response = EmptyDict
    /\ client \in [owns_http : IF program = "api" THEN BOOLEAN ELSE {TRUE},
                   ws_class : IF program \in {"gateway_demo", "gateway"}
                              THEN {"present"}
                              ELSE {"present", "absent"},
                   rt_error : {FALSE},
                   http : {"open"}, closeCalls : {0}, releases : {0}]
    /\ conn = [h \in Handles |-> "absent"]
    /\ connects = [h \in Handles |-> 0]
    /\ closes = [h \in Handles |-> 0]
    /\ released = [h \in Handles |-> 0]
    /\ gen = "idle"
    /\ endCause = "none"
    /\ cancelPending = FALSE
    /\ wire = <<>>
    /\ delivered = <<>>
    /\ observed = <<>>
    /\ verdicts = <<>>

Init ==
    /\ program \in Programs
    /\ url = DefaultUrl
    /\ InitSession

(* --------------------- helpers of the operations ---------------------- *)
\* The handle opened last (0 before the first open).
Cur == Cardinality({h \in Handles : conn[h] /= "absent"})

\* `self._websocket_class` is truthy.  (The variant never finds it
\* missing.)
HasWebSocketClassAlways(c) == TRUE

HasWebSocketClass(c) == c.ws_class = "present"

\* open_task_stream has returned the handle to the caller.
Returned(h) == conn[h] \in {"open", "peer_closed", "closed", "failed"}

\* A session is live until the caller has closed its handle, or the open
\* has failed, and no pull is pending on it.
Live(h) ==
    \/ conn[h] \in {"connecting", "open", "peer_closed", "failed"}
    \/ (h = Cur /\ gen = "recv")

\* `yield json.loads(message)`: the event goes to the caller, after the
\* events yielded before it.  (The coalescing variant replaces a pending
\* event of the same kind instead of queueing behind it.)
YieldEventCoalesce(out, ev) ==
    IF out /= <<>> /\ Get(out[Len(out)], "event") = Get(ev, "event")
    THEN [out EXCEPT ![Len(out)] = ev]
    ELSE Append(out, ev)

YieldEvent(out, ev) == Append(out, ev)

\* SoulBrowserClient.close(): closes the HTTP client only when the SDK
\* created it; httpx.Client.close() releases its transport on the first
\* call and does nothing afterwards.  (The variant releases on every call.)
ClientCloseAlways(c) ==
    IF c.owns_http
    THEN [c EXCEPT !.http = "closed", !.closeCalls = @ + 1,
                   !.releases = @ + 1]
    ELSE [c EXCEPT !.closeCalls = @ + 1]

ClientCloseOp(c) ==
    IF c.owns_http
    THEN [c EXCEPT !.http = "closed", !.closeCalls = @ + 1,
                   !.releases = IF c.http = "open" THEN @ + 1 ELSE @]
    ELSE [c EXCEPT !.closeCalls = @ + 1]

\* The terminal test of chat_plan.py's loop (line 38).
ChatPlanTerminal(ev) ==
    /\ Get(ev, "event") = "status"
    /\ Get(GetDict(ev, "status"), "status") \in {"success", "failed"}

\* The terminal test of live_companion.py's loop (lines 61-64).
LiveCompanionTerminal(ev) ==
    IF Get(ev, "event") = "status"
    THEN Get(ev["status"], "status") \in {"success", "failed"}
    ELSE FALSE

LoopTerminal(prog, ev) ==
    IF prog = "chat_plan" THEN ChatPlanTerminal(ev)
    ELSE LiveCompanionTerminal(ev)

(* ------------------- operations on one stream session ----------------- *)
\* open_task_stream up to ws.connect(url): when a WebSocket class is
\* configured, a fresh WebSocket object is constructed and one connect is
\* issued on it.  The caller iterates over the new handle from now on.
\* (The variant connects the handle of the session before again.)
OpenBeginReuse(h) ==
    /\ HasWebSocketClass(client)
    /\ h = IF Cur = 0 THEN 1 ELSE Cur
    /\ conn' = [conn EXCEPT ![h] = "connecting"]
    /\ connects' = [connects EXCEPT ![h] = @ + 1]
    /\ gen' = "idle"
    /\ endCause' = "none"
    /\ cancelPending' = FALSE
    /\ wire' = <<>>
    /\ delivered' = <<>>
    /\ UNCHANGED <<closes, released>>

OpenBegin(h) ==
    /\ HasWebSocketClass(client)
    /\ h = Cur + 1
    /\ conn' = [conn EXCEPT ![h] = "connecting"]
    /\ connects' = [connects EXCEPT ![h] = @ + 1]
    /\ gen' = "idle"
    /\ endCause' = "none"
    /\ cancelPending' = FALSE
    /\ wire' = <<>>
    /\ delivered' = <<>>
    /\ UNCHANGED <<closes, released>>

\* `if not self._websocket_class: raise RuntimeError(...)`: nothing is
\* constructed, nothing is connected.
OpenRaises ==
    /\ ~HasWebSocketClass(client)
    /\ client' = [client EXCEPT !.rt_error = TRUE]
    /\ UNCHANGED sessVars

\* websocket.WebSocketApp(ws_url).run_forever(): a new socket, one connect.
AppConnect(h) ==
    /\ h = Cur + 1
    /\ conn' = [conn EXCEPT ![h] = "connecting"]
    /\ connects' = [connects EXCEPT ![h] = @ + 1]
    /\ gen' = "idle"
    /\ endCause' = "none"
    /\ cancelPending' = FALSE
    /\ wire' = <<>>
    /\ delivered' = <<>>
    /\ UNCHANGED <<closes, released>>

\* ws.connect(url) returns: open_task_stream returns ws to the caller.
ConnectOk(h) ==
    /\ conn[h] = "connecting"
    /\ conn' = [conn EXCEPT ![h] = "open"]
    /\ UNCHANGED <<connects, closes, released, gen, endCause, cancelPending,
                   wire, delivered>>

\* ws.connect(url) raises: the exception leaves open_task_stream, no ws is
\* returned.  (The variant swallows the exception and returns the handle.)
ConnectFailReturnsHandle(h) ==
    /\ conn[h] = "connecting"
    /\ conn' = [conn EXCEPT ![h] = "failed"]
    /\ UNCHANGED <<connects, closes, released, gen, endCause, cancelPending,
                   wire, delivered>>

ConnectFail(h) ==
    /\ conn[h] = "connecting"
    /\ conn' = [conn EXCEPT ![h] = "refused"]
    /\ UNCHANGED <<connects, closes, released, gen, endCause, cancelPending,
                   wire, delivered>>

\* The caller pulls (next() on the generator): the generator runs to
\* `message = ws.recv()` and blocks there.
Pull(h) ==
    /\ h = Cur
    /\ Returned(h)
    /\ gen \in {"idle", "yielded"}
    /\ gen' = "recv"
    /\ UNCHANGED <<conn, connects, closes, released, endCause, cancelPending,
                   wire, delivered>>

\* recv() returns a text frame: `yield json.loads(message)`.  When
\* json.loads raises, the exception leaves the generator, which is then
\* finished.  (The auto-closing variant closes the handle when the event
\* it yields is a success or failed status.)
RecvFrameAutoClose(h, f) ==
    /\ h = Cur
    /\ gen = "recv"
    /\ conn[h] = "open"
    /\ Len(wire) < MaxFrames
    /\ wire' = Append(wire, f)
    /\ IF JsonLoads(f).ok
       THEN /\ delivered' = YieldEvent(delivered, JsonLoads(f).val)
            /\ gen' = "yielded"
            /\ UNCHANGED endCause
       ELSE /\ gen' = "raised"
            /\ endCause' = "frame"
            /\ UNCHANGED delivered
    /\ IF JsonLoads(f).ok /\ ChatPlanTerminal(JsonLoads(f).val)
       THEN /\ conn' = [conn EXCEPT ![h] = "closed"]
            /\ closes' = [closes EXCEPT ![h] = @ + 1]
            /\ released' = [released EXCEPT ![h] = @ + 1]
       ELSE UNCHANGED <<conn, closes, released>>
    /\ UNCHANGED <<connects, cancelPending>>

RecvFrame(h, f) ==
    /\ h = Cur
    /\ gen = "recv"
    /\ conn[h] = "open"
    /\ Len(wire) < MaxFrames
    /\ wire' = Append(wire, f)
    /\ IF JsonLoads(f).ok
       THEN /\ delivered' = YieldEvent(delivered, JsonLoads(f).val)
            /\ gen' = "yielded"
            /\ UNCHANGED endCause
       ELSE /\ gen' = "raised"
            /\ endCause' = "frame"
            /\ UNCHANGED delivered
    /\ UNCHANGED <<conn, connects, closes, released, cancelPending>>

\* recv() on a connection that the peer or the caller has closed.  Only
\* None takes the `break`; "" goes to json.loads and raises; an exception
\* of recv() leaves the generator.  (The reconnecting variant answers a
\* closed connection with a new connect on the same handle.)
RecvClosedReconnect(h, sig) ==
    /\ h = Cur
    /\ gen = "recv"
    /\ conn[h] \in {"peer_closed", "closed"}
    /\ conn' = [conn EXCEPT ![h] = "connecting"]
    /\ connects' = [connects EXCEPT ![h] = @ + 1]
    /\ UNCHANGED <<closes, released, gen, endCause, cancelPending, wire,
                   delivered>>

RecvClosed(h, sig) ==
    /\ h = Cur
    /\ gen = "recv"
    /\ conn[h] \in {"peer_closed", "closed"}
    /\ gen' = IF sig = "None" THEN "done" ELSE "raised"
    /\ endCause' = IF conn[h] = "closed" THEN "local_close" ELSE "peer_close"
    /\ UNCHANGED <<conn, connects, closes, released, cancelPending, wire,
                   delivered>>

\* recv() raises on a broken connection: the exception leaves the
\* generator.
RecvError(h) ==
    /\ h = Cur
    /\ gen = "recv"
    /\ conn[h] = "failed"
    /\ gen' = "raised"
    /\ endCause' = "transport_error"
    /\ UNCHANGED <<conn, connects, closes, released, cancelPending, wire,
                   delivered>>

\* The peer closes the connection cleanly.
PeerClose(h) ==
    /\ conn[h] = "open"
    /\ conn' = [conn EXCEPT ![h] = "peer_closed"]
    /\ UNCHANGED <<connects, closes, released, gen, endCause, cancelPending,
                   wire, delivered>>

\* The connection breaks.
TransportError(h) ==
    /\ conn[h] = "open"
    /\ conn' = [conn EXCEPT ![h] = "failed"]
    /\ UNCHANGED <<connects, closes, released, gen, endCause, cancelPending,
                   wire, delivered>>

\* ws.close() by the caller, possibly while the generator is blocked in
\* recv() on another execution context.
WsClose(h) ==
    /\ Returned(h)
    /\ closes[h] < MaxCloseCalls
    /\ closes' = [closes EXCEPT ![h] = @ + 1]
    /\ released' = [released EXCEPT
                      ![h] = IF conn[h] = "closed" THEN @ ELSE @ + 1]
    /\ conn' = [conn EXCEPT ![h] = "closed"]
    /\ cancelPending' = (cancelPending \/ (h = Cur /\ gen = "recv"))
    /\ UNCHANGED <<connects, gen, endCause, wire, delivered>>

(* ---------------------- the transport (environment) ------------------- *)
callerVars == <<program, gw, call, response, url, pc, client, observed, verdicts>>

HandshakeCompletes ==
    (\E h \in Handles : ConnectOk(h)) /\ UNCHANGED callerVars

HandshakeFails ==
    (\E h \in Handles : ConnectFail(h)) /\ UNCHANGED callerVars

FrameArrives ==
    (\E h \in Handles, f \in Frames : RecvFrame(h, f)) /\ UNCHANGED callerVars

CloseSignalled ==
    (\E h \in Handles, sig \in CloseSignals : RecvClosed(h, sig))
    /\ UNCHANGED callerVars

RecvRaises ==
    (\E h \in Handles : RecvError(h)) /\ UNCHANGED callerVars

PeerCloses ==
    (\E h \in Handles : PeerClose(h)) /\ UNCHANGED callerVars

ConnectionBreaks ==
    (\E h \in Handles : TransportError(h)) /\ UNCHANGED callerVars

(* ------------------------ a caller of the SDK ------------------------- *)
\* This caller either closes its client or opens streams: client.close()
\* touches no stream state and no stream operation reads the HTTP client
\* (chat_plan, below, closes the client after its stream).
ApiOpen ==
    /\ program = "api"
    /\ client.closeCalls = 0
    /\ \A g \in Handles : ~Live(g)
    /\ \E h \in Handles : OpenBegin(h)
    /\ UNCHANGED <<program, gw, call, response, url, pc, client, observed, verdicts>>

ApiPull ==
    /\ program = "api"
    /\ \E h \in Handles : Pull(h)
    /\ UNCHANGED <<program, gw, call, response, url, pc, client, observed, verdicts>>

ApiWsClose ==
    /\ program = "api"
    /\ \E h \in Handles : WsClose(h)
    /\ UNCHANGED <<program, gw, call, response, url, pc, client, observed, verdicts>>

ApiClientClose ==
    /\ program = "api"
    /\ Cur = 0
    /\ client.closeCalls < MaxCloseCalls
    /\ client' = ClientCloseOp(client)
    /\ UNCHANGED <<program, gw, call, response, url, pc, observed, verdicts>>
    /\ UNCHANGED sessVars

\* open_task_stream on a client without a WebSocket class.
ApiOpenNoTransport ==
    /\ program = "api"
    /\ client.closeCalls = 0
    /\ ~client.rt_error
    /\ OpenRaises
    /\ UNCHANGED <<program, gw, call, response, url, pc, observed, verdicts>>

(* ------------------------- the shipped loops -------------------------- *)
\* What client.chat(...) may return: a plan with a task id, a plan whose
\* task id is null, empty or missing, and no plan at all.
ChatResponses ==
    { [success |-> TRUE,  plan |-> [plan |-> [task_id |-> "t-1"]]],
      [success |-> TRUE,  plan |-> [plan |-> [task_id |-> Absent]]],
      [success |-> TRUE,  plan |-> [plan |-> [task_id |-> ""]]],
      [success |-> TRUE,  plan |-> [plan |-> [steps |-> "[]"]]],
      [success |-> FALSE] }

\* plan = chat.get('plan', {}).get('plan', {}); task_id = plan.get('task_id')
ChatTaskId(chat) == Get(GetDict(GetDict(chat, "plan"), "plan"), "task_id")

\* `not task_id`
NoTaskId(t) == t \in {Absent, ""}

\* chat = client.chat(...); `if not task_id`: chat_plan returns (its outer
\* finally closes the client), live_companion raises SystemExit.
LoopChat ==
    /\ program \in Loops
    /\ pc = "chat"
    /\ \E r \in ChatResponses :
          /\ response' = r
          /\ pc' = IF ~NoTaskId(ChatTaskId(r)) THEN "open"
                   ELSE IF program = "chat_plan" THEN "client_close"
                   ELSE "exit"
    /\ UNCHANGED <<program, gw, call, url, client, observed, verdicts>>
    /\ UNCHANGED sessVars

\* open_task_stream raises RuntimeError: no WebSocket class.
LoopOpenNoTransport ==
    /\ program \in Loops
    /\ pc = "open"
    /\ OpenRaises
    /\ pc' = IF program = "chat_plan" THEN "client_close" ELSE "exit"
    /\ UNCHANGED <<program, gw, call, response, url, observed, verdicts>>

\* ws = client.open_task_stream(task_id)
LoopOpen ==
    /\ program \in Loops
    /\ pc = "open"
    /\ OpenBegin(1)
    /\ pc' = "iter"
    /\ UNCHANGED <<program, gw, call, response, url, client, observed, verdicts>>

\* open_task_stream raised: chat_plan's outer finally closes the client,
\* live_companion's main() is left by the exception.
LoopOpenFailed ==
    /\ program \in Loops
    /\ pc = "iter"
    /\ conn[1] = "refused"
    /\ pc' = IF program = "chat_plan" THEN "client_close" ELSE "exit"
    /\ UNCHANGED <<program, gw, call, response, url, client, observed, verdicts>>
    /\ UNCHANGED sessVars

\* `for event in client.iter_task_stream(ws)`: the next pull.
LoopPull ==
    /\ program \in Loops
    /\ pc = "iter"
    /\ Pull(1)
    /\ pc' = "wait"
    /\ UNCHANGED <<program, gw, call, response, url, client, observed, verdicts>>

\* The body of the loop on the event just yielded: `break` when the
\* loop's terminal test holds.
LoopBody ==
    /\ program \in Loops
    /\ pc = "wait"
    /\ gen = "yielded"
    /\ LET ev == delivered[Len(delivered)] IN
          /\ observed' = Append(observed, ev)
          /\ verdicts' = Append(verdicts, LoopTerminal(program, ev))
          /\ pc' = IF LoopTerminal(program, ev) THEN "finally" ELSE "iter"
    /\ UNCHANGED <<program, gw, call, response, url, client>>
    /\ UNCHANGED sessVars

\* KeyboardInterrupt inside the `try` around the loop, while the iteration
\* is still going on: it ends a blocked recv(), and control goes to the
\* `finally` (through `except KeyboardInterrupt` in live_companion).
LoopInterrupt ==
    /\ program \in Loops
    /\ pc \in {"iter", "wait"}
    /\ Returned(1)
    /\ gen \in {"idle", "recv", "yielded"}
    /\ gen' = IF gen = "recv" THEN "raised" ELSE gen
    /\ endCause' = "interrupt"
    /\ pc' = "finally"
    /\ UNCHANGED <<program, gw, call, response, url, client, observed, verdicts>>
    /\ UNCHANGED <<conn, connects, closes, released, cancelPending, wire,
                   delivered>>

\* The iteration ends (StopIteration) or an exception leaves the generator:
\* control goes to the `finally`.
LoopEnd ==
    /\ program \in Loops
    /\ pc = "wait"
    /\ gen \in {"done", "raised"}
    /\ pc' = "finally"
    /\ UNCHANGED <<program, gw, call, response, url, client, observed, verdicts>>
    /\ UNCHANGED sessVars

\* The variant has ws.close() after the loop instead of in a `finally`: an
\* exception that leaves the loop skips it.
LoopFinallySkipped ==
    /\ program \in Loops
    /\ pc = "finally"
    /\ IF gen = "raised"
       THEN UNCHANGED sessVars
       ELSE WsClose(1)
    /\ pc' = IF program = "chat_plan" THEN "client_close" ELSE "exit"
    /\ UNCHANGED <<program, gw, call, response, url, client, observed, verdicts>>

\* finally: ws.close()
LoopFinally ==
    /\ program \in Loops
    /\ pc = "finally"
    /\ WsClose(1)
    /\ pc' = IF program = "chat_plan" THEN "client_close" ELSE "exit"
    /\ UNCHANGED <<program, gw, call, response, url, client, observed, verdicts>>

\* chat_plan's outer finally: client.close()
LoopClientClose ==
    /\ program = "chat_plan"
    /\ pc = "client_close"
    /\ client' = ClientCloseOp(client)
    /\ pc' = "exit"
    /\ UNCHANGED <<program, gw, call, response, url, observed, verdicts>>
    /\ UNCHANGED sessVars

(* ---------------------- gateway_plan_demo.main ------------------------- *)
\* What run_plan may return: GatewayPlanRunResponse(**response.json()),
\* whatever the gateway sent (no key is required).
GatewayResponses ==
    { [success |-> TRUE, task_id |-> "t-1",
       stream_path |-> "/v1/tasks/t-1/stream"],
      [success |-> TRUE, task_id |-> Absent,
       stream_path |-> "/v1/tasks/stream"],
      [success |-> TRUE, stream_path |-> "/v1/tasks/stream"],
      [success |-> TRUE, task_id |-> Absent, stream_path |-> Absent],
      [success |-> FALSE, task_id |-> Absent, stream_path |-> Absent],
      [error |-> "plan rejected"] }

\* response = client.run_plan(payload); sys.exit(1) unless
\* response.get("success"); response["task_id"] and
\* response["stream_path"] raise KeyError for a missing key, and
\* to_ws_url raises AttributeError for a stream_path of None.
GatewaySubmit ==
    /\ program = "gateway_demo"
    /\ pc = "run_plan"
    /\ \E r \in GatewayResponses :
          /\ response' = r
          /\ pc' = IF /\ "success" \in DOMAIN r
                      /\ r.success
                      /\ "task_id" \in DOMAIN r
                      /\ "stream_path" \in DOMAIN r
                      /\ r.stream_path /= Absent
                   THEN "stream"
                   ELSE "exit"
    /\ UNCHANGED <<program, gw, call, url, client, observed, verdicts>>
    /\ UNCHANGED sessVars

\* stream_task_events(ws_url): websocket.WebSocketApp(ws_url, ...) and
\* run_forever(), which connects a new socket.
GatewayStream ==
    /\ program = "gateway_demo"
    /\ pc = "stream"
    /\ AppConnect(1)
    /\ pc' = "run_forever"
    /\ UNCHANGED <<program, gw, call, response, url, client, observed, verdicts>>

Next ==
    \/ HandshakeCompletes
    \/ HandshakeFails
    \/ FrameArrives
    \/ CloseSignalled
    \/ RecvRaises
    \/ PeerCloses
    \/ ConnectionBreaks
    \/ ApiOpen
    \/ ApiPull
    \/ ApiWsClose
    \/ ApiClientClose
    \/ ApiOpenNoTransport
    \/ LoopChat
    \/ LoopOpenNoTransport
    \/ LoopOpen
    \/ LoopOpenFailed
    \/ LoopPull
    \/ LoopBody
    \/ LoopEnd
    \/ LoopInterrupt
    \/ LoopFinally
    \/ LoopClientClose
    \/ GatewaySubmit
    \/ GatewayStream

Spec == Init /\ [][Next]_vars

(* -------------------------- the stream URL ---------------------------- *)
\* A base endpoint is its text: scheme, host, the port written in it (0
\* when it has none) and whether it ends with "/".  A stream URL is the
\* text built from it: scheme, host, the port written in it (0 when it has
\* none) and the path.
Schemes == {"http", "https"}
Hosts == {"127.0.0.1", "gateway.example.com"}
Ports == {0, 80, 443, 8801}
Paths == {Absent, "", "/custom/stream"}
TaskId == "t-1"

DefaultPort(scheme) == IF scheme \in {"https", "wss"} THEN 443 ELSE 80

\* httpx.URL(text).port: None (0 here) when the text has no port or has
\* the default port of its scheme.
HttpxPort(b) == IF b.port = DefaultPort(b.scheme) THEN 0 ELSE b.port

\* `x or y` on ports: None and 0 are both falsy.
PortOr(x, y) == IF x = 0 THEN y ELSE x

\* base_url.rstrip('/')
RstripSlash(b) == [b EXCEPT !.slash = FALSE]

\* _build_ws_url(path): scheme, host and port of httpx.URL(self._base_url),
\* then the path.  (The variant falls back to port 80 whatever the scheme.)
BuildWsUrlDefault80(b, path) ==
    LET scheme == IF b.scheme = "https" THEN "wss" ELSE "ws" IN
    [scheme |-> scheme, host |-> b.host,
     port |-> PortOr(HttpxPort(b), 80), path |-> path]

BuildWsUrl(b, path) ==
    LET scheme == IF b.scheme = "https" THEN "wss" ELSE "ws" IN
    [scheme |-> scheme, host |-> b.host,
     port |-> PortOr(HttpxPort(b), IF scheme = "wss" THEN 443 ELSE 80),
     path |-> path]

\* target_path = path or (f'/v1/tasks/{task_id}/stream' if via_gateway
\*                         else f'/api/tasks/{task_id}/stream')
TargetPath(task_id, via_gateway, path) ==
    IF path \notin {Absent, ""} THEN path
    ELSE IF via_gateway THEN "/v1/tasks/" \o task_id \o "/stream"
    ELSE "/api/tasks/" \o task_id \o "/stream"

\* to_ws_url(base_url, stream_path) for a stream_path that is a path: the
\* base text without its trailing "/", its scheme prefix replaced, and the
\* path appended; the port stays as written.
ToWsUrl(b, stream_path) ==
    LET gateway_url == RstripSlash(b) IN
    [scheme |-> IF gateway_url.scheme = "https" THEN "wss" ELSE "ws",
     host |-> gateway_url.host, port |-> gateway_url.port,
     path |-> (IF gateway_url.slash THEN "/" ELSE "") \o stream_path]

InitUrl ==
    /\ program = "url"
    /\ url \in [scheme : Schemes, host : Hosts, port : Ports, slash : BOOLEAN,
                path : Paths, gateway : BOOLEAN, by : {Absent}, out : {Absent}]
    /\ InitSession

\* client.open_task_stream(task_id, via_gateway=..., path=...) up to
\* `url = self._build_ws_url(target_path)`.
UrlOpenTaskStream ==
    /\ program = "url"
    /\ url.by = Absent
    /\ url' = [url EXCEPT
                 !.by = "open_task_stream",
                 !.out = BuildWsUrl(RstripSlash(url),
                                    TargetPath(TaskId, url.gateway, url.path))]
    /\ UNCHANGED <<program, gw, call, response, pc, client, observed, verdicts>>
    /\ UNCHANGED sessVars

\* ws_url = to_ws_url(args.gateway, response["stream_path"])
UrlToWsUrl ==
    /\ program = "url"
    /\ url.by = Absent
    /\ url.path /= Absent
    /\ url' = [url EXCEPT !.by = "to_ws_url", !.out = ToWsUrl(url, url.path)]
    /\ UNCHANGED <<program, gw, call, response, pc, client, observed, verdicts>>
    /\ UNCHANGED sessVars

NextUrl ==
    \/ UrlOpenTaskStream
    \/ UrlToWsUrl

SpecUrl == InitUrl /\ [][NextUrl]_vars

(* ------------------------ the gateway client -------------------------- *)
\* Python truthiness of an optional string: None and "" are falsy.
Truthy(x) == x \notin {Absent, ""}

\* key.lower() on the header names used here.
Lower(k) ==
    CASE k = "Authorization"  -> "authorization"
      [] k = "X-Tenant-Token" -> "x-tenant-token"
      [] OTHER -> k

\* {k: v}, and d[k] = v on a dict (keys are compared as they are written).
One(k, v) == [x \in {k} |-> v]
SetItem(d, k, v) == [x \in DOMAIN d \cup {k} |-> IF x = k THEN v ELSE d[x]]

\* {**d, **e} and d.update(e)
Update(d, e) ==
    [x \in DOMAIN d \cup DOMAIN e |-> IF x \in DOMAIN e THEN e[x] ELSE d[x]]

\* Arguments the caller may pass.  None and {} are the same to
\* `headers or {}` and to `if overrides:`.
TenantArgs == {Absent, "", "t1", "t2"}
ApiKeys == {Absent, "", "k1"}
TenantTokens == {Absent, "", "tok"}
StaticHeaders ==
    { EmptyDict,
      One("x-trace", "s"),
      One("content-type", "text/plain"),
      One("x-tenant-id", ""),
      One("Authorization", "Basic s") }
Overrides ==
    { EmptyDict,
      One("x-trace", "o"),
      One("Authorization", "Basic o"),
      One("x-tenant-token", "caller-tok"),
      One("X-Tenant-Token", "caller-tok") }

\* _build_headers(tenant_id=..., overrides=...)
BuildHeaders(g, tenant_id, overrides) ==
    LET defaults ==
           SetItem(One("content-type", "application/json"), "x-tenant-id",
                   IF Truthy(tenant_id) THEN tenant_id ELSE g.tenant_id)
        headers == Update(Update(defaults, g.static_headers), overrides)
        lowered == {Lower(key) : key \in DOMAIN headers}
        withKey ==
           IF Truthy(g.api_key) /\ "authorization" \notin lowered
           THEN SetItem(headers, "Authorization", "Bearer " \o g.api_key)
           ELSE headers
    IN IF Truthy(g.tenant_token) /\ "x-tenant-token" \notin DOMAIN withKey
       THEN SetItem(withKey, "x-tenant-token", g.tenant_token)
       ELSE withKey

\* SoulBrowserGatewayClient(tenant_id=..., api_key=..., tenant_token=...,
\* headers=...): ValueError for a falsy tenant_id, and no client then.
GatewayClientInit ==
    /\ program = "gateway"
    /\ ~gw.made
    /\ \E t \in TenantArgs, k \in ApiKeys, tok \in TenantTokens,
          h \in StaticHeaders :
          /\ gw' = IF ~Truthy(t) THEN gw
                   ELSE [made |-> TRUE, tenant_id |-> t, api_key |-> k,
                         tenant_token |-> tok, static_headers |-> h]
          /\ call' = [NoCall EXCEPT !.op = "init", !.raised = ~Truthy(t),
                                    !.tenant_id = t]
    /\ UNCHANGED <<program, response, url, pc, client, observed, verdicts>>
    /\ UNCHANGED sessVars

\* set_tenant(tenant_id).  (The variant stores whatever it is given.)
SetTenantUnchecked ==
    /\ program = "gateway"
    /\ gw.made
    /\ \E t \in TenantArgs :
          /\ gw' = [gw EXCEPT !.tenant_id = t]
          /\ call' = [NoCall EXCEPT !.op = "set_tenant", !.tenant_id = t]
    /\ UNCHANGED <<program, response, url, pc, client, observed, verdicts>>
    /\ UNCHANGED sessVars

SetTenant ==
    /\ program = "gateway"
    /\ gw.made
    /\ \E t \in TenantArgs :
          /\ gw' = IF ~Truthy(t) THEN gw ELSE [gw EXCEPT !.tenant_id = t]
          /\ call' = [NoCall EXCEPT !.op = "set_tenant",
                                    !.raised = ~Truthy(t), !.tenant_id = t]
    /\ UNCHANGED <<program, response, url, pc, client, observed, verdicts>>
    /\ UNCHANGED sessVars

\* configure_auth(api_key=..., tenant_token=...): an argument that is not
\* None replaces the stored value.
ConfigureAuth ==
    /\ program = "gateway"
    /\ gw.made
    /\ \E k \in ApiKeys, tok \in TenantTokens :
          gw' = [gw EXCEPT
                   !.api_key = IF k /= Absent THEN k ELSE @,
                   !.tenant_token = IF tok /= Absent THEN tok ELSE @]
    /\ call' = [NoCall EXCEPT !.op = "configure_auth"]
    /\ UNCHANGED <<program, response, url, pc, client, observed, verdicts>>
    /\ UNCHANGED sessVars

\* run_tool / run_plan up to `request_headers = self._build_headers(...)`.
GatewayRequest ==
    /\ program = "gateway"
    /\ gw.made
    /\ \E t \in TenantArgs, o \in Overrides :
          call' = [op |-> "build", raised |-> FALSE, tenant_id |-> t,
                   overrides |-> o, headers |-> BuildHeaders(gw, t, o)]
    /\ UNCHANGED <<program, gw, response, url, pc, client, observed, verdicts>>
    /\ UNCHANGED sessVars

InitGateway ==
    /\ program = "gateway"
    /\ url = DefaultUrl
    /\ InitSession

NextGateway ==
    \/ GatewayClientInit
    \/ SetTenant
    \/ ConfigureAuth
    \/ GatewayRequest

SpecGateway == InitGateway /\ [][NextGateway]_vars


(* ---------------------- the session's state --------------------------- *)
\* The SDK keeps no state field: a session is the handle returned by
\* open_task_stream together with the generator reading it, and its state
\* is what the caller can observe of the two.  A session the caller closed
\* is Closed; one whose connect or recv raised, or whose generator was left
\* by an exception, is Failed; one the peer closed, or whose iteration
\* ended, is Closed.
State(h) ==
    CASE conn[h] = "absent" -> "None"
      [] conn[h] = "closed" -> "Closed"
      [] conn[h] \in {"failed", "refused"} -> "Failed"
      [] h = Cur /\ gen = "raised" -> "Failed"
      [] conn[h] = "peer_closed" -> "Closed"
      [] h = Cur /\ gen = "done" -> "Closed"
      [] conn[h] = "connecting" -> "Connecting"
      [] OTHER -> "Open"

\* The terminal-state policy: status success, failed or cancelled.
TerminalDetector(ev) ==
    /\ Get(ev, "event") = "status"
    /\ Get(GetDict(ev, "status"), "status") \in {"success", "failed", "cancelled"}

ErrorEvent == KindDoc("error")

(* ------------------------------ claims -------------------------------- *)

\* C1: the events pulled from iter_task_stream are the frames recv()
\* returned, decoded, in the transport's order and one per frame: the i-th
\* event is the i-th frame, so no frame is reordered, merged, duplicated or
\* skipped; the only frame without an event is the last one, when its
\* decoding raised to the caller.
C1_OrderPreserved ==
    /\ Len(delivered) <= Len(wire)
    /\ Len(wire) <= Len(delivered) + 1
    /\ \A i \in 1..Len(delivered) :
          JsonLoads(wire[i]).ok /\ delivered[i] = JsonLoads(wire[i]).val
    /\ Len(wire) = Len(delivered) + 1 => gen = "raised" /\ endCause = "frame"

\* A status running frame that followed a status success frame on the wire
\* has been delivered after it, and a third event after both.
C1_Witness ==
    /\ Len(delivered) = 3
    /\ delivered[1] = StatusDoc("success")
    /\ delivered[2] = StatusDoc("running")
    /\ delivered[3] = StatusDoc("running")

\* C2: a frame that cannot be decoded yields a synthetic `error` event in
\* its position and never ends the stream: every frame received has its
\* event (status, error, status for a malformed frame between two status
\* frames) and no frame makes the generator raise.
C2_MalformedFrameYieldsErrorEvent ==
    /\ Len(delivered) = Len(wire)
    /\ \A i \in 1..Len(wire) :
          delivered[i] = IF JsonLoads(wire[i]).ok THEN JsonLoads(wire[i]).val
                         ELSE ErrorEvent
    /\ endCause /= "frame"

\* C3: a pull that was pending when the session was closed from another
\* execution context ends with end-of-stream, never with an exception.
C3_CancelledPullEndsNormally ==
    cancelPending => gen \in {"recv", "done"}

\* C4: the terminal test the shipped loops apply agrees, on every event
\* they consume, with the policy: terminal iff kind status with status
\* success, failed or cancelled.
C4_LoopTestIsTerminalDetector ==
    \A i \in 1..Len(observed) : verdicts[i] = TerminalDetector(observed[i])

\* C5: when the peer has closed the connection cleanly, the pull that meets
\* the close ends the iteration normally, however recv() signals the close.
C5_PeerCloseEndsIteration ==
    endCause = "peer_close" => gen = "done"

\* C6: a transport error terminates the stream (the session is Failed, the
\* pull that meets it raises and delivers nothing, no event follows),
\* whereas a decode error never moves the session to Failed.
C6_TransportErrorsOnlyFail ==
    [][/\ (Cur > 0 /\ conn[Cur] = "failed") =>
              (State(Cur) = "Failed" /\ delivered' = delivered)
       /\ (endCause' = "transport_error" /\ endCause /= "transport_error")
              => (gen' = "raised" /\ delivered' = delivered)
       /\ (endCause' = "frame" /\ endCause /= "frame")
              => State(Cur)' /= "Failed"]_vars

\* C7: the session never reconnects: one connect per handle, and a session
\* that is Closed or Failed (peer close, transport error, failed handshake)
\* never returns to Connecting or Open and sees no further connect.
C7_NoReconnect ==
    [][\A h \in Handles :
          /\ connects'[h] <= 1
          /\ State(h) \in {"Closed", "Failed"} =>
                /\ State(h)' \in {"Closed", "Failed"}
                /\ connects'[h] = connects[h]]_vars

\* The caller has closed the session on handle 1 and opened a second
\* session, whose connection broke and whose pending pull raised.
C7_Witness ==
    /\ endCause = "transport_error"
    /\ connects[1] = 1
    /\ State(1) = "Closed"
    /\ connects[2] = 1
    /\ State(2) = "Failed"

\* C8: every change of a session's state is Connecting to Open on a
\* successful handshake, Open to Closed on peer close or caller close, Open
\* (or Connecting, for the handshake) to Failed on a transport error, or any
\* state to Closed on an explicit close; Closed is absorbing; events are
\* delivered only while the session is Open.
C8_StateMachine ==
    [][/\ \A h \in Handles :
             /\ State(h)' \in {"None", "Connecting", "Open", "Closed", "Failed"}
             /\ State(h) = "Closed" => State(h)' = "Closed"
             /\ State(h)' /= State(h) =>
                   \/ State(h) = "None" /\ State(h)' = "Connecting"
                   \/ /\ State(h) = "Connecting" /\ State(h)' = "Open"
                      /\ conn'[h] = "open"
                   \/ /\ State(h) = "Open" /\ State(h)' = "Closed"
                      /\ conn'[h] \in {"peer_closed", "closed"}
                   \/ /\ State(h) = "Open" /\ State(h)' = "Failed"
                      /\ conn'[h] = "failed"
                   \/ /\ State(h) = "Connecting" /\ State(h)' = "Failed"
                      /\ conn'[h] = "refused"
                   \/ State(h)' = "Closed" /\ closes'[h] = closes[h] + 1
       /\ (Len(delivered') > Len(delivered)) => State(Cur) = "Open"]_vars

\* C9: closing is idempotent: a close() on a client that was closed before,
\* or a ws.close() on a handle that is closed, changes nothing but the
\* number of calls, and a client's HTTP transport and a handle's connection
\* are released at most once.
C9_CloseIdempotent ==
    [][/\ (client.closeCalls >= 1 /\ client'.closeCalls > client.closeCalls)
             => /\ client'.http = client.http
                /\ client'.releases = client.releases
                /\ client'.owns_http = client.owns_http
       /\ client'.releases <= 1
       /\ \A h \in Handles :
             /\ (conn[h] = "closed" /\ closes'[h] > closes[h])
                   => conn'[h] = "closed" /\ released'[h] = released[h]
             /\ released'[h] <= 1]_vars

\* The client that owns its HTTP client has been closed twice.
C9_Witness ==
    /\ client.owns_http
    /\ client.closeCalls = 2
    /\ client.http = "closed"
    /\ client.releases = 1

\* C10: a shipped loop consumes the events up to and including the first
\* terminal status event, detects terminal on that event and on no other,
\* and then closes the session; for status running, overlay, status success
\* it consumes the three events, detects terminal on the third and closes.
C10_LoopStopsAtFirstTerminal ==
    /\ \A i \in 1..Len(observed) :
          /\ verdicts[i] = TerminalDetector(observed[i])
          /\ TerminalDetector(observed[i]) => i = Len(observed)
    /\ (pc = "exit" /\ Returned(1)) => closes[1] = 1
    /\ (/\ pc = "exit"
        /\ wire = <<"st_running", "overlay", "st_success">>
        /\ endCause /= "interrupt")
          => /\ observed = <<StatusDoc("running"), JsonLoads("overlay").val,
                             StatusDoc("success")>>
             /\ verdicts = <<FALSE, FALSE, TRUE>>
             /\ closes[1] = 1


\* The kind a frame's text names: the string of its last "event" member
\* (Absent for an object without one, "<bad>" for text that is not JSON).
WireKind(raw) ==
    LET x == FrameText(raw) IN
    IF x.t /= "obj" THEN "<bad>"
    ELSE IF LastIndex(x.v, "event", Len(x.v)) = 0 THEN Absent
    ELSE x.v[LastIndex(x.v, "event", Len(x.v))][2].v

C12_UnknownKindPreserved ==
    \A i \in 1..Len(wire) :
       (WireKind(wire[i]) \notin KnownKinds \cup {Absent, "<bad>"}) =>
          /\ i <= Len(delivered)
          /\ delivered[i] = [event |-> "metric", value |-> "42"]
          /\ Get(delivered[i], "event") = WireKind(wire[i])

\* A frame of the unknown kind "metric" was delivered between two others.
C12_Witness ==
    /\ Len(delivered) = 3
    /\ Get(delivered[1], "event") = "status"
    /\ Get(delivered[2], "event") = "metric"
    /\ Get(delivered[3], "event") = "status"

\* C13: a well-formed frame without an `event` field is never delivered as
\* an event without a kind: every delivered event has a kind, and the frame
\* is surfaced in its position as an `error` event.
C13_FrameWithoutKindRejected ==
    /\ \A i \in 1..Len(delivered) : Get(delivered[i], "event") /= Absent
    /\ \A i \in 1..Len(wire) :
          WireKind(wire[i]) = Absent =>
             (i <= Len(delivered) /\ Get(delivered[i], "event") = "error")

\* The documented fields of the frames of the recognized kinds.
Payload(raw) ==
    CASE raw = "overlay" ->
            [event |-> "overlay",
             overlay |-> [source |-> "vision", data |-> [title |-> "Example"]]]
      [] raw = "observation" ->
            [event |-> "observation", observation_type |-> "image",
             step_id |-> "navigate", dispatch_label |-> "action",
             bbox |-> Absent, screenshot_path |-> "/tmp/s.png"]
      [] OTHER ->
            [event |-> "status",
             status |-> [status |-> CASE raw = "st_running" -> "running"
                                      [] raw = "st_success" -> "success"
                                      [] raw = "st_failed" -> "failed"
                                      [] OTHER -> "cancelled",
                         current_step |-> "1", last_error |-> Absent]]

\* C14: the step that decodes a valid frame of a recognized kind delivers
\* an event of that kind whose fields are exactly the frame's (none
\* dropped, renamed or altered), and changes nothing else of the session.
C14_DecodePreservesFields ==
    [][(/\ Len(wire') = Len(wire) + 1
        /\ WireKind(wire'[Len(wire')]) \in KnownKinds)
          => /\ delivered' = Append(delivered, Payload(wire'[Len(wire')]))
             /\ UNCHANGED <<conn, connects, closes, released, cancelPending,
                            endCause, client>>]_vars

\* An observation frame (with a null bbox) and a status frame (with a null
\* last_error) have been decoded and delivered.
C14_Witness ==
    /\ Len(delivered) = 2
    /\ Get(delivered[1], "event") = "observation"
    /\ "bbox" \in DOMAIN delivered[1]
    /\ Get(delivered[2], "event") = "status"
    /\ "last_error" \in DOMAIN delivered[2]["status"]

\* The task id a script reads from the response of its submission.
SubmittedTaskId ==
    IF program \in Loops THEN ChatTaskId(response)
    ELSE Get(response, "task_id")

\* C15: once a script's submission has returned without a task identifier,
\* the script is on its way out and no socket is ever constructed or
\* connected for it.
C15_NoStreamWithoutTaskId ==
    (/\ program \in Loops \cup {"gateway_demo"}
     /\ pc \notin {"chat", "run_plan"}
     /\ NoTaskId(SubmittedTaskId))
       => /\ pc \in {"client_close", "exit"}
          /\ \A h \in Handles : conn[h] = "absent" /\ connects[h] = 0

\* C16: when the handshake of an open does not complete, the open fails:
\* the handle is not returned to the caller and the session is Failed; from
\* then on the handle is never connected, opened or closed, and nothing is
\* ever pulled or delivered from it.
C16_FailedHandshakeReturnsNothing ==
    [][\A h \in Handles :
          /\ (conn[h] = "connecting" /\ conn'[h] \notin {"connecting", "open"})
                => /\ conn'[h] = "refused"
                   /\ ~Returned(h)'
                   /\ State(h)' = "Failed"
          /\ conn[h] = "refused"
                => /\ conn'[h] = "refused"
                   /\ connects'[h] = connects[h]
                   /\ closes'[h] = closes[h]
                   /\ released'[h] = released[h]
          /\ (conn'[h] = "refused" /\ h = Cur')
                => (gen' = "idle" /\ wire' = <<>> /\ delivered' = <<>>)]_vars

\* chat_plan's open failed in the handshake: the script left without a
\* socket, through the `finally` that closes the client.
C16_Witness ==
    /\ program = "chat_plan"
    /\ conn[1] = "refused"
    /\ connects[1] = 1
    /\ pc = "exit"
    /\ client.http = "closed"

\* The port a URL text designates: the one written in it, or the default
\* of its scheme.
EffectivePort(u) == PortOr(u.port, DefaultPort(u.scheme))

\* C17: the stream URL built from a base endpoint has scheme wss exactly
\* when the base scheme is https and ws otherwise, the host of the base,
\* the port written in the base, or 443/80 by the base's scheme when it
\* has none, and then the locator path unchanged: the path given, or the
\* task's stream path when open_task_stream is given none.
C17_StreamUrlDerived ==
    url.by /= Absent =>
       /\ url.out.scheme = (IF url.scheme = "https" THEN "wss" ELSE "ws")
       /\ url.out.host = url.host
       /\ EffectivePort(url.out) =
             (IF url.port /= 0 THEN url.port
              ELSE IF url.scheme = "https" THEN 443 ELSE 80)
       /\ url.out.path =
             (IF url.by = "to_ws_url" \/ url.path \notin {Absent, ""}
              THEN url.path
              ELSE IF url.gateway THEN "/v1/tasks/t-1/stream"
              ELSE "/api/tasks/t-1/stream")

\* An https base without a port, through open_task_stream with a path.
C17_Witness ==
    /\ url.by = "open_task_stream"
    /\ url.scheme = "https"
    /\ url.port = 0
    /\ url.path = "/custom/stream"
    /\ url.out = [scheme |-> "wss", host |-> url.host, port |-> 443,
                  path |-> "/custom/stream"]

\* C18 as stated: a client without a usable WebSocket implementation is
\* rejected by the constructor, so no constructed client ever fails in
\* open_task_stream for lack of one.
C18_NoTransportFailsAtConstruction == ~client.rt_error

\* C18, amended: a client without a usable WebSocket implementation is
\* constructed like any other, and the absence is reported by
\* open_task_stream: it raises RuntimeError before a handle is created or
\* a connect is issued, and it raises for no other client.
C18_NoTransportFailsAtOpen ==
    /\ client.ws_class = "absent"
          => \A h \in Handles : conn[h] = "absent" /\ connects[h] = 0
    /\ client.rt_error
          => /\ client.ws_class = "absent"
             /\ pc \in {"api", "client_close", "exit"}

\* live_companion was given a client without a WebSocket class: its
\* open_task_stream raised after a submission that returned a task id.
C18_Witness ==
    /\ program = "live_companion"
    /\ ~NoTaskId(ChatTaskId(response))
    /\ client.rt_error
    /\ pc = "exit"
    /\ connects[1] = 0

\* C19: every open constructs a handle of its own: the connect of an open
\* is issued on a handle that did not exist before, it is the only connect
\* that handle ever gets, the session starts with nothing received or
\* delivered, the handles of the sessions before are left as they are, and
\* a handle once constructed is never given out again.
C19_FreshHandlePerOpen ==
    [][\A h \in Handles :
          /\ connects'[h] /= connects[h]
                => /\ conn[h] = "absent"
                   /\ connects[h] = 0
                   /\ connects'[h] = 1
                   /\ conn'[h] = "connecting"
                   /\ wire' = <<>>
                   /\ delivered' = <<>>
                   /\ \A g \in Handles \ {h} :
                         /\ conn'[g] = conn[g]
                         /\ connects'[g] = connects[g]
                         /\ closes'[g] = closes[g]
                         /\ released'[g] = released[g]
          /\ conn[h] /= "absent" => conn'[h] /= "absent"]_vars

\* A second session is open and has delivered an event on its own handle,
\* after the first session was closed.
C19_Witness ==
    /\ conn[1] = "closed"
    /\ conn[2] = "open"
    /\ connects[1] = 1
    /\ connects[2] = 1
    /\ closes[2] = 0
    /\ Len(delivered) >= 1

TenantIdGuarded ==
    /\ gw'.made => Truthy(gw'.tenant_id)
    /\ (call'.op \in {"init", "set_tenant"} /\ ~Truthy(call'.tenant_id))
          => (call'.raised /\ gw' = gw)
    /\ (call'.op \in {"init", "set_tenant"} /\ Truthy(call'.tenant_id))
          => (~call'.raised /\ gw'.tenant_id = call'.tenant_id)
    /\ call'.op = "configure_auth" => gw'.tenant_id = gw.tenant_id

\* C21 as stated: the stored tenant id is guarded as above, and hence every
\* request built without per-call header overrides carries a non-empty
\* x-tenant-id.
C21_TenantIdNeverEmpty ==
    [][/\ TenantIdGuarded
       /\ (call'.op = "build" /\ call'.overrides = EmptyDict)
             => Truthy(Get(call'.headers, "x-tenant-id"))]_vars

\* C21, amended: the stored tenant id is guarded as above, and every
\* request built without per-call header overrides, by a client whose
\* static headers do not set x-tenant-id themselves, carries a non-empty
\* x-tenant-id: the per-call tenant id when one is given, the stored one
\* otherwise.
C21_TenantIdNeverEmptyUnlessStatic ==
    [][/\ TenantIdGuarded
       /\ (/\ call'.op = "build"
           /\ call'.overrides = EmptyDict
           /\ "x-tenant-id" \notin DOMAIN gw.static_headers)
             => /\ Truthy(Get(call'.headers, "x-tenant-id"))
                /\ Get(call'.headers, "x-tenant-id") =
                      (IF Truthy(call'.tenant_id) THEN call'.tenant_id
                       ELSE gw.tenant_id)]_vars

\* A request built without overrides and without a per-call tenant id, by
\* a client with a static header and an API key: it carries the stored
\* tenant id.
C21_Witness ==
    /\ call.op = "build"
    /\ call.overrides = EmptyDict
    /\ ~Truthy(call.tenant_id)
    /\ gw.static_headers = One("x-trace", "s")
    /\ gw.api_key = "k1"
    /\ gw.tenant_id = "t2"
    /\ Get(call.headers, "x-tenant-id") = "t2"

\* The header names of a dict that are `name` when letter case is ignored.
NamesOf(d, name) == {k \in DOMAIN d : Lower(k) = name}

\* The headers the caller supplied for a request: the static headers with
\* the per-call overrides over them.
CallerHeaders == Update(gw.static_headers, call.overrides)

\* C22: in the headers built for a request, every header the caller gave
\* has the caller's value, per-call overrides before static headers before
\* defaults; and when the caller gave `authorization` or `x-tenant-token`
\* in any letter case, the built headers hold exactly one header of that
\* name, the caller's, whatever api_key and tenant_token are configured.
C22_CallerHeadersWin ==
    call.op = "build" =>
       /\ \A k \in DOMAIN CallerHeaders : Get(call.headers, k) = CallerHeaders[k]
       /\ "content-type" \notin DOMAIN CallerHeaders
             => Get(call.headers, "content-type") = "application/json"
       /\ \A name \in {"authorization", "x-tenant-token"} :
             NamesOf(CallerHeaders, name) /= {}
                => NamesOf(call.headers, name) = NamesOf(CallerHeaders, name)
====
